---- MODULE Spec2Model ----
(***************************************************************************)
(* ResumeAI (src/app.py): the Text-to-Resume Transformer get_ai_resume     *)
(* behind streamlit's result cache, the Document Renderer create_pdf, and  *)
(* the script run that connects them through st.session_state.             *)
(*                                                                         *)
(* Text is a sequence of tokens: one token is one piece of punctuation (a  *)
(* brace, a bracket, a colon, a comma, a double quote, a backtick, a       *)
(* newline) or one run of ordinary characters (json, A, notes).  Python    *)
(* objects are records [t, v] tagged with their Python type; a dict is a   *)
(* function from key strings to objects.                                   *)
(*                                                                         *)
(* json.loads is modelled on the JSON these tokens can spell: strings      *)
(* without escapes, one-digit numbers, arrays and objects, with whitespace *)
(* between them.  The layout library (fpdf) is modelled by the sequence of *)
(* cells it is asked to draw; its own failure modes (fonts, encodings,     *)
(* page geometry) are outside the model.                                   *)
(***************************************************************************)
EXTENDS Integers, Sequences, FiniteSets, TLC

VARIABLES
    session_state,  \* st.session_state: a function on a subset of {"cv_data"}
    cache,          \* st.cache_data's memo of get_ai_resume: (raw_text, style) -> value
    n_backend,      \* number of model.generate_content calls made so far
    user_input,     \* the text area's value in the latest script run
    resume_style,   \* the select box's value in the latest script run
    clicked,        \* whether the latest script run was a Transform click
    status,         \* left pane message of the latest run: none, success, warning
    preview,        \* right pane of the latest run: kind, create_pdf's arguments, its result
    arg,            \* create_pdf or get_ai_resume run on its own: the argument
    out,            \* create_pdf or get_ai_resume run on its own: the result
    pc              \* "ready" before that run, "done" after it, "idle" in the application

uiVars == <<session_state, cache, n_backend, user_input, resume_style, clicked, status, preview>>
fnVars == <<arg, out, pc>>
vars == <<session_state, cache, n_backend, user_input, resume_style, clicked, status,
          preview, arg, out, pc>>

(***************************************************************************)
(* Python objects                                                          *)
(***************************************************************************)
PNone == [t |-> "none", v |-> 0]
PStr(s) == [t |-> "str", v |-> s]
PInt(n) == [t |-> "int", v |-> n]
PList(l) == [t |-> "list", v |-> l]
PDict(f) == [t |-> "dict", v |-> f]

EmptyMap == [k \in {} |-> PNone]
Key(w) == <<w>>
\* d[key] = value
DictSet(dict, key, value) == (key :> value) @@ dict

\* bool(x) of a Python object
Truthy(x) ==
    CASE x.t = "none" -> FALSE
      [] x.t = "str" -> Len(x.v) > 0
      [] x.t = "int" -> x.v # 0
      [] x.t = "list" -> Len(x.v) > 0
      [] x.t = "dict" -> DOMAIN x.v # {}

\* str(x) and f"{x}": a str is itself, anything else its repr
PyStr(x) == IF x.t = "str" THEN x.v ELSE <<"<repr>">>

\* d.get(k, default) of a dict d
Get(d, k, default) == IF Key(k) \in DOMAIN d.v THEN d.v[Key(k)] ELSE default

(***************************************************************************)
(* str.replace(old, "") and json.loads                                     *)
(***************************************************************************)
IsPrefixAt(s, i, old) ==
    /\ i + Len(old) - 1 <= Len(s)
    /\ \A j \in 1..Len(old) : s[i + j - 1] = old[j]

\* the least of a set of indices, or 0 when there is none
First(hits) == IF hits = {} THEN 0 ELSE CHOOSE j \in hits : \A h \in hits : j <= h

RECURSIVE RemoveFrom(_, _, _)
RemoveFrom(s, i, old) ==
    LET m == First({j \in i..Len(s) : IsPrefixAt(s, j, old)}) IN
    IF m = 0 THEN SubSeq(s, i, Len(s))
    ELSE SubSeq(s, i, m - 1) \o RemoveFrom(s, m + Len(old), old)

\* s.replace(old, ""): every non-overlapping occurrence, left to right
Remove(s, old) == RemoveFrom(s, 1, old)

\* the double-quote character
Quote == "DQ"
\* the backtick character
Backtick == "BT"
Whitespace == {" ", "NL"}
Digits == {"0", "1"}
DigitValue(c) == IF c = "0" THEN 0 ELSE 1

ParseFail == [ok |-> FALSE, val |-> PNone, pos |-> 0]
ParseOk(x, p) == [ok |-> TRUE, val |-> x, pos |-> p]

\* the index of the first token at or after i that is not whitespace
SkipWs(s, i) ==
    LET m == First({j \in i..Len(s) : s[j] \notin Whitespace}) IN
    IF m = 0 THEN Len(s) + 1 ELSE m

\* index of the quote closing a string whose content starts at i; 0 when the
\* string is unterminated or holds a raw control character
ScanString(s, i) ==
    LET m == First({j \in i..Len(s) : s[j] \in {Quote, "NL"}}) IN
    IF m = 0 \/ s[m] = "NL" THEN 0 ELSE m

RECURSIVE ParseValue(_, _), ParseElements(_, _, _), ParseMembers(_, _, _)
ParseValue(s, i0) ==
    LET i == SkipWs(s, i0) IN
    IF i > Len(s) THEN ParseFail
    ELSE IF s[i] = Quote THEN
        LET j == ScanString(s, i + 1) IN
        IF j = 0 THEN ParseFail ELSE ParseOk(PStr(SubSeq(s, i + 1, j - 1)), j + 1)
    ELSE IF s[i] \in Digits THEN ParseOk(PInt(DigitValue(s[i])), i + 1)
    ELSE IF s[i] = "[" THEN
        LET k == SkipWs(s, i + 1) IN
        IF k <= Len(s) /\ s[k] = "]" THEN ParseOk(PList(<<>>), k + 1)
        ELSE ParseElements(s, i + 1, <<>>)
    ELSE IF s[i] = "{" THEN
        LET k == SkipWs(s, i + 1) IN
        IF k <= Len(s) /\ s[k] = "}" THEN ParseOk(PDict(EmptyMap), k + 1)
        ELSE ParseMembers(s, i + 1, EmptyMap)
    ELSE ParseFail

ParseElements(s, i, acc) ==
    LET r == ParseValue(s, i) IN
    IF ~r.ok THEN ParseFail
    ELSE LET k == SkipWs(s, r.pos) IN
         IF k > Len(s) THEN ParseFail
         ELSE IF s[k] = "," THEN ParseElements(s, k + 1, Append(acc, r.val))
         ELSE IF s[k] = "]" THEN ParseOk(PList(Append(acc, r.val)), k + 1)
         ELSE ParseFail

ParseMembers(s, i, acc) ==
    LET q == SkipWs(s, i) IN
    IF q > Len(s) \/ s[q] # Quote THEN ParseFail
    ELSE LET j == ScanString(s, q + 1) IN
         IF j = 0 THEN ParseFail
         ELSE LET c == SkipWs(s, j + 1) IN
              IF c > Len(s) \/ s[c] # ":" THEN ParseFail
              ELSE LET r == ParseValue(s, c + 1) IN
                   IF ~r.ok THEN ParseFail
                   ELSE LET e == SkipWs(s, r.pos)
                            m == DictSet(acc, SubSeq(s, q + 1, j - 1), r.val) IN
                        IF e > Len(s) THEN ParseFail
                        ELSE IF s[e] = "," THEN ParseMembers(s, e + 1, m)
                        ELSE IF s[e] = "}" THEN ParseOk(PDict(m), e + 1)
                        ELSE ParseFail

\* json.loads(s): the value, or raised with JSONDecodeError
json_loads(s) ==
    LET r == ParseValue(s, 1) IN
    IF r.ok /\ SkipWs(s, r.pos) > Len(s)
    THEN [raised |-> FALSE, val |-> r.val]
    ELSE [raised |-> TRUE, val |-> PStr(<<"JSONDecodeError">>)]

(***************************************************************************)
(* get_ai_resume                                                           *)
(***************************************************************************)
\* what model.generate_content(prompt) / response.text does: raise with a
\* message, or return a text
Raises(m) == [kind |-> "raise", msg |-> m, text |-> <<>>]
Returns(x) == [kind |-> "text", msg |-> <<>>, text |-> x]

GenerationError(m) == PDict(DictSet(EmptyMap, Key("error"), PStr(m)))

clean_text(text) == Remove(Remove(text, <<Backtick, Backtick, Backtick, "json">>),
                           <<Backtick, Backtick, Backtick>>)

\* the body of get_ai_resume for one outcome of the backend call (what
\* precedes the try block, building the model handle and the prompt, does
\* not fail)
get_ai_resume(outcome) ==
    IF outcome.kind = "raise" THEN GenerationError(outcome.msg)
    ELSE LET r == json_loads(clean_text(outcome.text)) IN
         IF r.raised THEN GenerationError(r.val.v) ELSE r.val

(***************************************************************************)
(* create_pdf                                                              *)
(***************************************************************************)
Cell(k, s) == [k |-> k, s |-> s]
\* an exception leaves create_pdf without a result
Raised == [raised |-> TRUE, cells |-> <<>>]
Drawn(c) == [raised |-> FALSE, cells |-> c]
Then(a, b) == IF a.raised \/ b.raised THEN Raised ELSE Drawn(a.cells \o b.cells)

\* iter(x): the items a for loop or str.join visits (a dict gives its keys;
\* their insertion order is not tracked), or raised for an int or None
KeysInOrder(f) ==
    CHOOSE q \in [1..Cardinality(DOMAIN f) -> DOMAIN f] :
        \A k \in DOMAIN f : \E i \in DOMAIN q : q[i] = k
Items(x) ==
    CASE x.t = "list" -> [raised |-> FALSE, items |-> x.v]
      [] x.t = "str" -> [raised |-> FALSE, items |-> [i \in 1..Len(x.v) |-> PStr(<<x.v[i]>>)]]
      [] x.t = "dict" -> [raised |-> FALSE,
                          items |-> [i \in 1..Cardinality(DOMAIN x.v) |-> PStr(KeysInOrder(x.v)[i])]]
      [] OTHER -> [raised |-> TRUE, items |-> <<>>]

RECURSIVE JoinFrom(_, _, _)
JoinFrom(items, i, sep) ==
    IF i > Len(items) THEN <<>>
    ELSE IF i = Len(items) THEN items[i].v
    ELSE items[i].v \o <<sep>> \o JoinFrom(items, i + 1, sep)

\* sep.join(x): raised unless x is iterable and every item is a str
Join(x, sep) ==
    LET it == Items(x) IN
    IF it.raised \/ \E i \in 1..Len(it.items) : it.items[i].t # "str"
    THEN [raised |-> TRUE, s |-> <<>>]
    ELSE [raised |-> FALSE, s |-> JoinFrom(it.items, 1, sep)]

\* variant: the line is drawn whenever the key is there
HasLinkedinKey(contact_data) == Key("linkedin") \in DOMAIN contact_data.v

\* if contact_data.get('linkedin'):
HasLinkedin(contact_data) == Truthy(Get(contact_data, "linkedin", PNone))

HeaderBlock(data) ==
    LET contact_data == Get(data, "contact", PDict(EmptyMap)) IN
    IF contact_data.t # "dict" THEN Raised
    ELSE Drawn(
        << Cell("name", PyStr(Get(data, "name", PStr(<<"Name Not Found">>)))),
           Cell("title", PyStr(Get(data, "title", PStr(<<"Title Not Found">>)))),
           Cell("contact", <<"Email: ">> \o PyStr(Get(contact_data, "email", PStr(<<"N/A">>)))
                           \o <<" | Phone: ">> \o PyStr(Get(contact_data, "phone", PStr(<<"N/A">>)))) >>
        \o (IF HasLinkedin(contact_data)
            THEN <<Cell("linkedin", <<"LinkedIn: ">> \o PyStr(Get(contact_data, "linkedin", PNone)))>>
            ELSE <<>>)
        \o <<Cell("ln", <<>>)>>)

SummarySection(data) ==
    Drawn(<< Cell("header", <<"PROFESSIONAL SUMMARY">>),
             Cell("summary", PyStr(Get(data, "summary", PStr(<<>>)))) >>)

SkillsSection(data) ==
    LET skills == Join(Get(data, "skills", PList(<<>>)), " | ") IN
    IF skills.raised THEN Raised
    ELSE Drawn(<< Cell("ln", <<>>), Cell("header", <<"TECHNICAL SKILLS">>),
                  Cell("skills", skills.s) >>)

\* job['details'][0]
FirstDetail(details) ==
    CASE details.t = "list" -> [raised |-> FALSE, item |-> details.v[1]]
      [] details.t = "str" -> [raised |-> FALSE, item |-> PStr(<<details.v[1]>>)]
      [] OTHER -> [raised |-> TRUE, item |-> PNone]

\* variant: one detail cell per item
DetailCellsAll(details) ==
    IF details.t # "list" \/ \E i \in 1..Len(details.v) : details.v[i].t # "str" THEN Raised
    ELSE Drawn([i \in 1..Len(details.v) |-> Cell("detail", <<"- ">> \o details.v[i].v)])

\* the detail cells of one job: if job['details']: multi_cell("- " + job['details'][0])
DetailCells(details) ==
    IF ~Truthy(details) THEN Drawn(<<>>)
    ELSE LET first == FirstDetail(details) IN
         IF first.raised \/ first.item.t # "str" THEN Raised
         ELSE Drawn(<<Cell("detail", <<"- ">> \o first.item.v)>>)

\* one pass of the loop over data.get('experience', [])
JobCells(job) ==
    IF job.t # "dict" THEN Raised
    ELSE LET role == Get(job, "role", PStr(<<>>))
             company == Get(job, "company", PStr(<<>>)) IN
         IF role.t # "str" \/ company.t # "str" THEN Raised
         ELSE IF Key("details") \notin DOMAIN job.v THEN Raised
         ELSE Then(Drawn(<<Cell("job", role.v \o <<" at ">> \o company.v)>>),
                   DetailCells(job.v[Key("details")]))

RECURSIVE JobsFrom(_, _)
JobsFrom(jobs, i) ==
    IF i > Len(jobs) THEN Drawn(<<>>) ELSE Then(JobCells(jobs[i]), JobsFrom(jobs, i + 1))

ExperienceSection(data) ==
    LET it == Items(Get(data, "experience", PList(<<>>))) IN
    IF it.raised THEN Raised
    ELSE Then(Drawn(<<Cell("ln", <<>>), Cell("header", <<"EXPERIENCE">>)>>),
              JobsFrom(it.items, 1))

EduCells(edu) ==
    IF edu.t # "dict" THEN Raised
    ELSE Drawn(<<Cell("edu", PyStr(Get(edu, "degree", PStr(<<"N/A">>))) \o <<" from ">>
                             \o PyStr(Get(edu, "institution", PStr(<<"N/A">>))) \o <<" (">>
                             \o PyStr(Get(edu, "year", PStr(<<"N/A">>))) \o <<")">>)>>)

RECURSIVE EduFrom(_, _)
EduFrom(edus, i) ==
    IF i > Len(edus) THEN Drawn(<<>>) ELSE Then(EduCells(edus[i]), EduFrom(edus, i + 1))

EducationSection(data) ==
    LET it == Items(Get(data, "education", PList(<<>>))) IN
    IF it.raised THEN Raised
    ELSE Then(Drawn(<<Cell("ln", <<>>), Cell("header", <<"EDUCATION">>)>>),
              EduFrom(it.items, 1))

\* create_pdf(data): the cells of the returned document, or raised
create_pdf(data) ==
    IF data.t # "dict" THEN Raised
    ELSE Then(HeaderBlock(data),
         Then(SummarySection(data),
         Then(SkillsSection(data),
         Then(ExperienceSection(data), EducationSection(data)))))

(***************************************************************************)
(* The script run: the Transform button handler, then the preview pane     *)
(***************************************************************************)
Styles == {"Corporate", "Creative/Modern", "Technical/Engineering"}
DefaultStyle == "Corporate"

\* "error" in data: key membership for a dict, substring for a str, element
\* membership for a list, TypeError for an int
Contains(data, w) ==
    CASE data.t = "dict" -> [raised |-> FALSE, yes |-> Key(w) \in DOMAIN data.v]
      [] data.t = "str" -> [raised |-> FALSE, yes |-> \E i \in 1..Len(data.v) : data.v[i] = w]
      [] data.t = "list" -> [raised |-> FALSE,
                             yes |-> \E i \in 1..Len(data.v) : data.v[i] = PStr(<<w>>)]
      [] OTHER -> [raised |-> TRUE, yes |-> FALSE]

NoPdf == [raised |-> FALSE, cells |-> <<>>]
Pane(kind, msg, pdf_args, pdf, download) ==
    [kind |-> kind, msg |-> msg, pdf_args |-> pdf_args, pdf |-> pdf, download |-> download]

\* st.error("AI Error: " + data["error"])
ErrorPane(data) ==
    IF data.t = "dict" /\ data.v[Key("error")].t = "str"
    THEN Pane("error", <<"AI Error: ">> \o data.v[Key("error")].v, <<>>, NoPdf, FALSE)
    ELSE Pane("exception", <<>>, <<>>, NoPdf, FALSE)

\* whether the on-screen sections raise: job['role'], job['company'] and
\* the loop over job['details'] index the entry directly
SectionsRaise(data) ==
    LET jobs == Items(Get(data, "experience", PList(<<>>))).items IN
    \E i \in 1..Len(jobs) :
        \/ Key("role") \notin DOMAIN jobs[i].v
        \/ Key("company") \notin DOMAIN jobs[i].v
        \/ Items(jobs[i].v[Key("details")]).raised

DocumentPane(data) ==
    LET pdf_bytes == create_pdf(data) IN
    IF pdf_bytes.raised THEN Pane("exception", <<>>, <<data>>, pdf_bytes, FALSE)
    ELSE IF SectionsRaise(data) THEN Pane("exception", <<>>, <<data>>, pdf_bytes, TRUE)
    ELSE Pane("document", <<>>, <<data>>, pdf_bytes, TRUE)

\* the right column, for the session state the left column left behind
PreviewPane(ss) ==
    IF "cv_data" \notin DOMAIN ss
    THEN Pane("info", <<"Your generated CV will appear here.">>, <<>>, NoPdf, FALSE)
    ELSE LET data == ss["cv_data"]
             has_error == Contains(data, "error") IN
         IF has_error.raised THEN Pane("exception", <<>>, <<>>, NoPdf, FALSE)
         ELSE IF has_error.yes THEN ErrorPane(data)
         ELSE DocumentPane(data)

NoSession == [k \in {} |-> PNone]

\* variant: a new dict is merged into the dict already held
StoreResultMerged(ss, value) ==
    IF "cv_data" \in DOMAIN ss /\ ss["cv_data"].t = "dict" /\ value.t = "dict"
    THEN [k \in {"cv_data"} |-> PDict(value.v @@ ss["cv_data"].v)]
    ELSE [k \in {"cv_data"} |-> value]

\* variant: an error result does not replace what is held
StoreResultKeepOnError(ss, value) ==
    IF "cv_data" \in DOMAIN ss /\ value.t = "dict" /\ Key("error") \in DOMAIN value.v
    THEN ss
    ELSE [k \in {"cv_data"} |-> value]

\* st.session_state['cv_data'] = <value>
StoreResult(ss, value) == [k \in {"cv_data"} |-> value]

\* variant: the handler does not look at the text
InputGivenAlways(text) == TRUE

\* if user_input:
InputGiven(text) == text # ""

CacheKey(text, style) == <<text, style>>
CachePut(c, key, value) == (key :> value) @@ c

\* Transform clicked, input given, (raw_text, style) not memoized: the body of
\* get_ai_resume runs, and whatever it returns is memoized and stored
TransformFresh(text, style, outcome) ==
    /\ InputGiven(text)
    /\ CacheKey(text, style) \notin DOMAIN cache
    /\ LET value == get_ai_resume(outcome) IN
        /\ cache' = CachePut(cache, CacheKey(text, style), value)
        /\ session_state' = StoreResult(session_state, value)
    /\ n_backend' = n_backend + 1
    /\ user_input' = text
    /\ resume_style' = style
    /\ clicked' = TRUE
    /\ status' = "success"
    /\ preview' = PreviewPane(session_state')
    /\ UNCHANGED fnVars

\* Transform clicked, input given, (raw_text, style) memoized: the memoized
\* value is returned without running the body
TransformCached(text, style) ==
    /\ InputGiven(text)
    /\ CacheKey(text, style) \in DOMAIN cache
    /\ session_state' = StoreResult(session_state, cache[CacheKey(text, style)])
    /\ user_input' = text
    /\ resume_style' = style
    /\ clicked' = TRUE
    /\ status' = "success"
    /\ preview' = PreviewPane(session_state')
    /\ UNCHANGED <<cache, n_backend>>
    /\ UNCHANGED fnVars

\* Transform clicked with nothing in the text area
TransformEmpty(text, style) ==
    /\ ~InputGiven(text)
    /\ user_input' = text
    /\ resume_style' = style
    /\ clicked' = TRUE
    /\ status' = "warning"
    /\ preview' = PreviewPane(session_state)
    /\ UNCHANGED <<session_state, cache, n_backend>>
    /\ UNCHANGED fnVars

\* any other interaction (editing a widget, pressing Download) reruns the
\* script with the button not clicked
Rerun(text, style) ==
    /\ user_input' = text
    /\ resume_style' = style
    /\ clicked' = FALSE
    /\ status' = "none"
    /\ preview' = PreviewPane(session_state)
    /\ UNCHANGED <<session_state, cache, n_backend>>
    /\ UNCHANGED fnVars

\* a new browser session: fresh session state and widgets; the cache is
\* shared by all sessions of the process
NewSession ==
    /\ session_state' = NoSession
    /\ user_input' = ""
    /\ resume_style' = DefaultStyle
    /\ clicked' = FALSE
    /\ status' = "none"
    /\ preview' = PreviewPane(session_state')
    /\ UNCHANGED <<cache, n_backend>>
    /\ UNCHANGED fnVars

(***************************************************************************)
(* Texts the backend may return                                            *)
(***************************************************************************)
JStr(s) == <<Quote>> \o s \o <<Quote>>
Member(k, vtext) == JStr(<<k>>) \o <<":", " ">> \o vtext

RECURSIVE CommaFrom(_, _)
CommaFrom(parts, i) ==
    IF i > Len(parts) THEN <<>>
    ELSE IF i = Len(parts) THEN parts[i]
    ELSE parts[i] \o <<",", " ">> \o CommaFrom(parts, i + 1)

JObject(members) == <<"{">> \o CommaFrom(members, 1) \o <<"}">>
JArray(elements) == <<"[">> \o CommaFrom(elements, 1) \o <<"]">>

Fence == <<Backtick, Backtick, Backtick>>
FencedJson(j) == Fence \o <<"json", "NL">> \o j \o <<"NL">> \o Fence
FencedPlain(j) == Fence \o <<"NL">> \o j \o <<"NL">> \o Fence

JaneText ==
    JObject(<< Member("name", JStr(<<"Jane Doe">>)),
               Member("contact", JObject(<< Member("email", JStr(<<"jane@x.org">>)) >>)),
               Member("skills", JArray(<< JStr(<<"Go">>), JStr(<<"SQL">>) >>)),
               Member("experience", JArray(<< JObject(<<
                   Member("company", JStr(<<"PTCL">>)),
                   Member("role", JStr(<<"Engineer">>)),
                   Member("details", JArray(<< JStr(<<"A">>), JStr(<<"B">>) >>)) >>) >>)) >>)

AliText ==
    JObject(<< Member("title", JStr(<<"Technician">>)),
               Member("summary", JStr(<<"Maintains servers">>)),
               Member("education", JArray(<< JObject(<<
                   Member("degree", JStr(<<"BSc">>)) >>) >>)) >>)

BackendOutcomes ==
    { Raises(<<"429 quota exceeded">>),
      Returns(FencedJson(JaneText)),
      Returns(AliText),
      Returns(JStr(<<"not json">>)),
      Returns(<<"not json">>),
      Returns(JArray(<< JStr(<<"Jane Doe">>) >>)),
      Returns(<<"1">>) }

UiInputs == {"", "notes"}

(***************************************************************************)
(* The application                                                         *)
(***************************************************************************)
Idle == /\ arg = PNone
        /\ out = PNone
        /\ pc = "idle"

\* the first script run of a fresh process
UiInit ==
    /\ session_state = NoSession
    /\ cache = [k \in {} |-> PNone]
    /\ n_backend = 0
    /\ user_input = ""
    /\ resume_style = DefaultStyle
    /\ clicked = FALSE
    /\ status = "none"
    /\ preview = PreviewPane(NoSession)

Init == UiInit /\ Idle

Next ==
    \/ \E text \in UiInputs, style \in Styles, outcome \in BackendOutcomes :
           TransformFresh(text, style, outcome)
    \/ \E text \in UiInputs, style \in Styles : TransformCached(text, style)
    \/ \E text \in UiInputs, style \in Styles : TransformEmpty(text, style)
    \/ \E text \in UiInputs, style \in Styles : Rerun(text, style)
    \/ NewSession

Spec == Init /\ [][Next]_vars

(***************************************************************************)
(* The data contract: the shape the prompt's schema asks the backend for,  *)
(* every field optional                                                    *)
(***************************************************************************)
IsStr(x) == x.t = "str"
IsStrList(x) == x.t = "list" /\ \A i \in 1..Len(x.v) : IsStr(x.v[i])
Keys(ws) == {Key(w) : w \in ws}
IsDictOf(x, ws) == x.t = "dict" /\ DOMAIN x.v \subseteq Keys(ws)
Has(x, w) == Key(w) \in DOMAIN x.v

IsContactInfo(x) ==
    /\ IsDictOf(x, {"email", "phone", "linkedin"})
    /\ \A k \in DOMAIN x.v : IsStr(x.v[k])

IsEducationEntry(x) ==
    /\ IsDictOf(x, {"degree", "institution", "year"})
    /\ \A k \in DOMAIN x.v : IsStr(x.v[k])

IsExperienceEntry(x) ==
    /\ IsDictOf(x, {"company", "role", "details"})
    /\ Has(x, "company") => IsStr(x.v[Key("company")])
    /\ Has(x, "role") => IsStr(x.v[Key("role")])
    /\ Has(x, "details") => IsStrList(x.v[Key("details")])

IsResumeDocument(x) ==
    /\ IsDictOf(x, {"name", "title", "summary", "contact", "skills", "education", "experience"})
    /\ \A w \in {"name", "title", "summary"} : Has(x, w) => IsStr(x.v[Key(w)])
    /\ Has(x, "contact") => IsContactInfo(x.v[Key("contact")])
    /\ Has(x, "skills") => IsStrList(x.v[Key("skills")])
    /\ Has(x, "education") =>
           /\ x.v[Key("education")].t = "list"
           /\ \A i \in 1..Len(x.v[Key("education")].v) :
                  IsEducationEntry(x.v[Key("education")].v[i])
    /\ Has(x, "experience") =>
           /\ x.v[Key("experience")].t = "list"
           /\ \A i \in 1..Len(x.v[Key("experience")].v) :
                  IsExperienceEntry(x.v[Key("experience")].v[i])

\* the value get_ai_resume's except clause builds: {'error': <message>}
IsGenerationError(x) ==
    /\ x.t = "dict"
    /\ DOMAIN x.v = {Key("error")}
    /\ IsStr(x.v[Key("error")])

(***************************************************************************)
(* create_pdf on its own, over a bounded set of documents                  *)
(***************************************************************************)
MaxJobs == 2

RECURSIVE MkDictFrom(_, _)
MkDictFrom(pairs, i) ==
    IF i > Len(pairs) THEN EmptyMap
    ELSE DictSet(MkDictFrom(pairs, i + 1), Key(pairs[i][1]), pairs[i][2])
MkDict(pairs) == PDict(MkDictFrom(pairs, 1))

SeqsUpTo(S, n) == UNION {[1..m -> S] : m \in 0..n}
S(w) == PStr(<<w>>)
Blank == PStr(<<>>)

TextChoices ==
    { <<>>,
      << <<"name", S("Jane Doe")>>, <<"title", S("Engineer")>>,
         <<"summary", S("Keeps servers running")>>,
         <<"skills", PList(<<S("Go"), S("SQL")>>)>> >>,
      << <<"name", Blank>>, <<"title", Blank>>, <<"summary", Blank>>,
         <<"skills", PList(<<>>)>> >> }

ContactChoices ==
    {<<>>} \cup
    { << <<"contact", MkDict(c)>> >> :
        c \in { <<>>,
                << <<"email", S("jane@x.org")>>, <<"phone", S("555")>> >>,
                << <<"linkedin", Blank>> >>,
                << <<"linkedin", S("in/jane")>> >>,
                << <<"email", S("jane@x.org")>>, <<"linkedin", S("in/jane")>> >> } }

Jobs ==
    { MkDict(<< <<"role", S("Engineer")>>, <<"company", S("PTCL")>> >> \o d) :
        d \in { <<>>,
                << <<"details", PList(<<>>)>> >>,
                << <<"details", PList(<<S("A")>>)>> >>,
                << <<"details", PList(<<S("A"), S("B")>>)>> >> } }
    \cup
    { MkDict(<<>>),
      MkDict(<< <<"details", PList(<<>>)>> >>),
      MkDict(<< <<"role", S("Engineer")>>, <<"details", PList(<<S("B")>>)>> >>),
      MkDict(<< <<"company", S("PTCL")>>, <<"details", PList(<<S("C"), S("A")>>)>> >>) }

ExperienceChoices ==
    {<<>>} \cup { << <<"experience", PList(js)>> >> : js \in SeqsUpTo(Jobs, MaxJobs) }

FullEdu == MkDict(<< <<"degree", S("BSc")>>, <<"institution", S("UET")>>, <<"year", S("2020")>> >>)
EducationChoices ==
    {<<>>} \cup
    { << <<"education", PList(es)>> >> :
        es \in { <<>>, <<MkDict(<<>>)>>, <<FullEdu>>,
                 <<MkDict(<< <<"degree", S("MSc")>> >>), FullEdu>> } }

Documents ==
    { MkDict(t \o c \o x \o e) :
        t \in TextChoices, c \in ContactChoices, x \in ExperienceChoices, e \in EducationChoices }

InitRenderer ==
    /\ UiInit
    /\ arg \in Documents
    /\ out = NoPdf
    /\ pc = "ready"

Render ==
    /\ pc = "ready"
    /\ out' = create_pdf(arg)
    /\ pc' = "done"
    /\ UNCHANGED arg
    /\ UNCHANGED uiVars

SpecRenderer == InitRenderer /\ [][Render]_vars

(***************************************************************************)
(* get_ai_resume on its own, over a bounded set of backend outcomes        *)
(***************************************************************************)
MaxValueLen == 3

ValueStrings == SeqsUpTo({"A", Backtick, "json"}, MaxValueLen)
ObjectTexts == { JObject(<<Member("summary", JStr(v))>>) : v \in ValueStrings }
Wrappings(j) == {j, FencedJson(j), FencedPlain(j)}

TransformerOutcomes ==
    BackendOutcomes
    \cup { Returns(w) : w \in UNION {Wrappings(j) : j \in ObjectTexts} }
    \cup { Returns(<<>>),
           Returns(JObject(<<Member("name", <<"1">>)>>)),
           Returns(FencedJson(JObject(<<Member("experience", JStr(<<"none">>))>>))),
           Returns(<<"{">> \o Member("name", JStr(<<"Jane Doe">>))),
           Returns(JObject(<<>>) \o <<"Hope", "this", "helps">>) }

InitTransformer ==
    /\ UiInit
    /\ arg \in TransformerOutcomes
    /\ out = PNone
    /\ pc = "ready"

Transform ==
    /\ pc = "ready"
    /\ out' = get_ai_resume(arg)
    /\ pc' = "done"
    /\ UNCHANGED arg
    /\ UNCHANGED uiVars

SpecTransformer == InitTransformer /\ [][Transform]_vars

(***************************************************************************)
(* Properties                                                              *)
(***************************************************************************)
Slot == session_state["cv_data"]
HasSlot == "cv_data" \in DOMAIN session_state
\* the latest script run was a Transform click with text in the text area
CalledTransformer == clicked /\ user_input # ""
\* what that run's get_ai_resume call returned
Returned == cache[CacheKey(user_input, resume_style)]

\* the backend outcomes for which a ResumeDocument is due: a text that,
\* fences stripped, is the JSON of a ResumeDocument
YieldsDocument(outcome) ==
    /\ outcome.kind = "text"
    /\ ~json_loads(clean_text(outcome.text)).raised
    /\ IsResumeDocument(json_loads(clean_text(outcome.text)).val)

\* C1: whenever the backend call raises, or returns a text that is not JSON
\* or is JSON without the ResumeDocument shape, get_ai_resume returns a
\* GenerationError {'error': message}.
C1_FailureGivesGenerationError ==
    (pc = "done" /\ ~YieldsDocument(arg)) => IsGenerationError(out)

\* C2: a Transform click with a (rawText, style) pair for which
\* get_ai_resume has returned a GenerationError makes a new backend call.
C2_RetryCallsBackend ==
    [][ ( /\ clicked'
          /\ user_input' # ""
          /\ CacheKey(user_input', resume_style') \in DOMAIN cache
          /\ IsGenerationError(cache[CacheKey(user_input', resume_style')]) )
        => n_backend' = n_backend + 1 ]_vars

\* C3: create_pdf is invoked only on a session value that is a
\* ResumeDocument; with a GenerationError in the slot the run shows the
\* error and reaches neither create_pdf nor the download button.
C3_RenderOnlyDocuments ==
    /\ preview.pdf_args # <<>> => IsResumeDocument(preview.pdf_args[1])
    /\ (HasSlot /\ IsGenerationError(Slot)) =>
           /\ preview.kind = "error"
           /\ preview.pdf_args = <<>>
           /\ ~preview.download

\* C4: create_pdf returns a non-empty document without raising for every
\* well-formed ResumeDocument, whichever optional fields are absent, at
\* the top level and inside experience and education entries.
C4_RenderSucceeds ==
    (pc = "done" /\ IsResumeDocument(arg)) => (~out.raised /\ Len(out.cells) > 0)

JobsOf(doc) == IF Has(doc, "experience") THEN doc.v[Key("experience")].v ELSE <<>>
EveryJobHasDetails(doc) == \A i \in 1..Len(JobsOf(doc)) : Has(JobsOf(doc)[i], "details")
DetailsOf(job) == job.v[Key("details")].v
TextOr(x, w, default) == IF Has(x, w) THEN x.v[Key(w)].v ELSE default
IsExperienceCell(c) == c.k \in {"job", "detail"}
\* where entry i's line stands among the experience cells: after one line
\* for each earlier entry and one more for each earlier entry with details
JobPosition(jobs, i) == i + Cardinality({j \in 1..(i - 1) : DetailsOf(jobs[j]) # <<>>})

\* C5: in every document create_pdf returns, the experience section holds,
\* entry by entry in list order, one "role at company" line (an absent role
\* or company as an empty segment), followed by nothing when details is
\* empty and by exactly one line, "- " and the first detail, when it is
\* not, however many details there are.
C5_ExperienceLines ==
    (pc = "done" /\ ~out.raised) =>
        LET jobs == JobsOf(arg)
            cells == SelectSeq(out.cells, IsExperienceCell) IN
        /\ EveryJobHasDetails(arg)
        /\ Len(cells) = JobPosition(jobs, Len(jobs) + 1) - 1
        /\ \A i \in 1..Len(jobs) :
            LET at == JobPosition(jobs, i) IN
            /\ cells[at] = Cell("job", TextOr(jobs[i], "role", <<>>) \o <<" at ">>
                                       \o TextOr(jobs[i], "company", <<>>))
            /\ DetailsOf(jobs[i]) # <<>> =>
                   cells[at + 1] = Cell("detail", <<"- ">> \o DetailsOf(jobs[i])[1].v)
            /\ DetailsOf(jobs[i]) = <<>> =>
                   (at = Len(cells) \/ cells[at + 1].k = "job")

\* C5's case: two entries rendered, the first with two details, the second
\* with neither role nor company and an empty details list
C5_Witness ==
    /\ pc = "done"
    /\ ~out.raised
    /\ Len(JobsOf(arg)) = 2
    /\ EveryJobHasDetails(arg)
    /\ Len(DetailsOf(JobsOf(arg)[1])) = 2
    /\ DOMAIN JobsOf(arg)[2].v = {Key("details")}
    /\ DetailsOf(JobsOf(arg)[2]) = <<>>

HasLinkedinField(doc) == Has(doc, "contact") /\ Has(doc.v[Key("contact")], "linkedin")
LinkedinField(doc) == doc.v[Key("contact")].v[Key("linkedin")].v
\* the cells drawn before the first section header
HeaderCells(cells) ==
    SubSeq(cells, 1, First({i \in 1..Len(cells) : cells[i].k = "header"}) - 1)
LinkedinLines(cells) == {i \in 1..Len(HeaderCells(cells)) : HeaderCells(cells)[i].k = "linkedin"}

C7_SlotIsOneResult ==
    HasSlot =>
        /\ \E key \in DOMAIN cache : cache[key] = Slot
        /\ CalledTransformer => Slot = Returned
        /\ preview.pdf_args # <<>> => preview.pdf_args[1] = Slot

\* C7's case: a second Transform call has replaced one document by another,
\* and the preview has rendered it
C7_Witness ==
    /\ HasSlot
    /\ CalledTransformer
    /\ preview.kind = "document"
    /\ IsResumeDocument(Slot)
    /\ \E key \in DOMAIN cache :
           /\ key # CacheKey(user_input, resume_style)
           /\ IsResumeDocument(cache[key])
           /\ cache[key] # Slot

\* C8: a Transform click with an empty text area calls neither
\* get_ai_resume nor the backend, leaves the slot and the cache as they
\* were and shows the warning; get_ai_resume is never called with an empty
\* rawText (every call leaves its arguments as a key of the cache).
C8_EmptyInputRejected ==
    [][ /\ (clicked' /\ user_input' = "") =>
               /\ UNCHANGED <<session_state, cache, n_backend>>
               /\ status' = "warning"
        /\ \A key \in DOMAIN cache' : key[1] # "" ]_vars

\* C8's case: an empty Transform click while the slot holds a document
C8_Witness ==
    /\ clicked
    /\ user_input = ""
    /\ status = "warning"
    /\ HasSlot
    /\ n_backend > 0

\* C10: after a Transform click with text in the text area the slot holds
\* what that call returned; if that is a GenerationError the run shows only
\* the error: no create_pdf, no download button, no preview.
C10_SlotHoldsLatestResult ==
    CalledTransformer =>
        /\ HasSlot
        /\ Slot = Returned
        /\ IsGenerationError(Returned) =>
               /\ preview.kind = "error"
               /\ preview.msg = <<"AI Error: ">> \o Returned.v[Key("error")].v
               /\ preview.pdf_args = <<>>
               /\ ~preview.download

\* C10's case: a failed call's error is in the slot although an earlier
\* call produced a document
C10_Witness ==
    /\ CalledTransformer
    /\ IsGenerationError(Slot)
    /\ preview.kind = "error"
    /\ \E key \in DOMAIN cache : IsResumeDocument(cache[key])

\* C9: for a response made of a JSON object J, bare or wrapped in a
\* json-tagged or plain code fence, get_ai_resume returns what parsing J
\* alone gives.
C9_FenceStrippingTransparent ==
    pc = "done" =>
        \A j \in ObjectTexts :
            arg \in {Returns(w) : w \in Wrappings(j)} => out = json_loads(j).val

====
